---- MODULE Spec2Model ----
(***************************************************************************)
(* zenql: an in-memory key-value server.                                   *)
(*   src/src/storage.rs  Storage: HashMap<String, Item> with ms expiry     *)
(*   src/src/main.rs     handle_conn: one task per connection, the store   *)
(*                       behind Arc<Mutex<Storage>>                        *)
(* Strings are sequences of one-character strings, so that to_lowercase    *)
(* and parse::<usize> are computed and not assumed.                        *)
(***************************************************************************)
EXTENDS Integers, Sequences, FiniteSets, TLC

VARIABLES
    now,          \* the monotonic clock (Instant), in ticks
    storage,      \* Storage.storage: HashMap<String, Item>, a function on its keys
    shadow,       \* ghost: the entry of the most recent set per key, never swept
    expiredSeen,  \* ghost: keys whose get answered None since their last set
    last,         \* ghost: the call that led to this state and what it returned
    lastSet,      \* ghost: the most recent set and the entry it replaced
    locked,       \* the Mutex around the Storage is held
    guard,        \* per connection: its task owns the MutexGuard (storage_lock)
    pc,           \* per connection: the position of its handle_conn task
    request,      \* per connection: the value read_value returned last
    response,     \* per connection: the response of the last dispatch
    nDecoded,     \* ghost, per connection: how many requests read_value has returned
    applied,      \* ghost, per connection: the numbers of the requests dispatched, in order
    replied,      \* ghost, per connection: the numbers of the requests answered, in order
    exitWhy,      \* ghost, per connection: why handle_conn returned
    closed        \* ghost: the connections the client has closed and the handler still serves

storeVars == <<storage, shadow, expiredSeen, last, lastSet>>
connVars == <<locked, guard, pc, request, response, nDecoded, applied, replied, exitWhy, closed>>
vars == <<now, storage, shadow, expiredSeen, last, lastSet, locked, guard, pc, request, response, nDecoded, applied, replied, exitWhy, closed>>

----------------------------------------------------------------------------
(* Bounds of the model *)

\* the greatest ttl, in milliseconds, a set is called with
MaxTtl == 1

\* ticks of the clock per millisecond: Duration::as_millis() truncates
TicksPerMilli == 2

\* the clock of the calls on one Storage stops at this tick
MaxNow == 4

\* the clock of the server stops at this tick
MaxClock == 2

\* the number of requests the connections send, all together, before their streams end
MaxReqs == 3

\* the clients that close their connection while their handler runs
MaxClosed == 1

\* the clock advances by no tick or by one while one call on the Storage runs
Drifts == {0, 1}

----------------------------------------------------------------------------
(* Strings *)

KeyA == <<"a">>
KeyB == <<"b">>
ValX == <<"x">>
ValY == <<"y">>

Keys == {KeyA, KeyB}
Vals == {ValX, ValY}
Ttls == 0..MaxTtl

----------------------------------------------------------------------------
(* storage.rs *)

\* Option<T>: None is the empty sequence, Some(x) the sequence of x
None == <<>>
Some(x) == <<x>>

\* struct Item { value, created, expires }
Item(value, created, expires) == [value |-> value, created |-> created, expires |-> expires]

\* Instant::elapsed().as_millis() of an Instant `created`, read at tick t
ElapsedMillis(created, t) == (t - created) \div TicksPerMilli

\* Storage::new
StorageNew == [k \in {} |-> Item(<<>>, 0, 0)]

\* HashMap::insert
Insert(st, key, item) == [k \in (DOMAIN st) \cup {key} |-> IF k = key THEN item ELSE st[k]]

\* HashMap::get
Lookup(st, key) == IF key \in DOMAIN st THEN Some(st[key]) ELSE None

\* a set that keeps the created time of the entry it overwrites
StorageSetKeepCreated(st, key, value, expires, t) == Insert(st, key, Item(value, IF key \in DOMAIN st THEN st[key].created ELSE t, expires))

\* Storage::set at clock t
StorageSet(st, key, value, expires, t) == Insert(st, key, Item(value, t, expires))

\* expiry tests gone wrong: none at all, the boundary taken as expired, the ttl 0 not exempt
IsExpiredGetNever(item, t) == FALSE
IsExpiredSweepGe(item, t) == item.expires > 0 /\ ElapsedMillis(item.created, t) >= item.expires
IsExpiredSweepNoZero(item, t) == ElapsedMillis(item.created, t) > item.expires

\* the test of Storage::get, storage.rs:35
IsExpiredGet(item, t) == item.expires > 0 /\ ElapsedMillis(item.created, t) > item.expires

\* the test of Storage::remove_expired, storage.rs:46
IsExpiredSweep(item, t) == item.expires > 0 /\ ElapsedMillis(item.created, t) > item.expires

\* a sweep that removes every entry that has a ttl
RemoveExpiredAllTtl(st, at) == [k \in {j \in DOMAIN st : st[j].expires = 0} |-> st[k]]

\* a sweep that removes nothing
RemoveExpiredKeepAll(st, at) == st

\* Storage::remove_expired; at[k] is the tick at which elapsed() is read for key k
RemoveExpired(st, at) == [k \in {j \in DOMAIN st : ~IsExpiredSweep(st[j], at[j])} |-> st[k]]

\* the lookup and test of Storage::get after its sweep, at tick t
GetCheck(st, key, t) == IF key \in DOMAIN st /\ ~IsExpiredGet(st[key], t) THEN Some(st[key]) ELSE None

\* the ticks at which one sweep over the keys of st can read the clock
SweepTimes(st, d) == [DOMAIN st -> now..(now + d)]

----------------------------------------------------------------------------
(* The ghost record of the most recent Storage call *)

LastRec(op, key, result, afterNone) == [op |-> op, key |-> key, result |-> result, afterNone |-> afterNone]

LastInit == LastRec("new", <<>>, None, FALSE)

SetRec(key, value, ttl, at, prev) == [key |-> key, value |-> value, ttl |-> ttl, at |-> at, prev |-> prev]

LastSetInit == SetRec(<<>>, <<>>, 0, 0, None)

----------------------------------------------------------------------------
(* Calls on the Storage *)

\* Storage::set(key, value, expires)
Set(key, value, expires) ==
    /\ storage' = StorageSet(storage, key, value, expires, now)
    /\ shadow' = StorageSet(shadow, key, value, expires, now)
    /\ expiredSeen' = expiredSeen \ {key}
    /\ last' = LastRec("set", key, None, FALSE)
    /\ lastSet' = SetRec(key, value, expires, now, Lookup(storage, key))
    /\ UNCHANGED <<now, connVars>>

\* Storage::get(key): the sweep, then the lookup and the test, the clock
\* advancing by d ticks while the call runs
Get(key) ==
    \E d \in Drifts : \E at \in SweepTimes(storage, d) :
        /\ now + d <= MaxNow
        /\ now' = now + d
        /\ storage' = RemoveExpired(storage, at)
        /\ LET r == GetCheck(storage', key, now') IN
              /\ last' = LastRec("get", key, r, key \in expiredSeen)
              /\ expiredSeen' = IF r = None /\ key \in DOMAIN shadow THEN expiredSeen \cup {key} ELSE expiredSeen
        /\ UNCHANGED <<shadow, lastSet, connVars>>

\* Storage::remove_expired()
Sweep ==
    \E d \in Drifts : \E at \in SweepTimes(storage, d) :
        /\ now + d <= MaxNow
        /\ now' = now + d
        /\ storage' = RemoveExpired(storage, at)
        /\ last' = LastRec("sweep", <<>>, None, FALSE)
        /\ UNCHANGED <<shadow, expiredSeen, lastSet, connVars>>

\* the clock advances
Tick ==
    /\ now < MaxNow
    /\ now' = now + 1
    /\ last' = LastRec("tick", <<>>, None, FALSE)
    /\ UNCHANGED <<storage, shadow, expiredSeen, lastSet, connVars>>

----------------------------------------------------------------------------
(* resp::Value and the helpers of main.rs *)

SimpleString(s) == [t |-> "SimpleString", s |-> s, a |-> <<>>]
BulkString(s) == [t |-> "BulkString", s |-> s, a |-> <<>>]
Array(a) == [t |-> "Array", s |-> <<>>, a |-> a]
Null == [t |-> "Null", s |-> <<>>, a |-> <<>>]

\* Result<T>
Ok(v) == [ok |-> TRUE, v |-> v]
Err == [ok |-> FALSE, v |-> <<>>]

UpperCase == <<"A", "B", "C", "D", "E", "F", "G", "H", "I", "J", "K", "L", "M", "N", "O", "P", "Q", "R", "S", "T", "U", "V", "W", "X", "Y", "Z">>
LowerCase == <<"a", "b", "c", "d", "e", "f", "g", "h", "i", "j", "k", "l", "m", "n", "o", "p", "q", "r", "s", "t", "u", "v", "w", "x", "y", "z">>
Digits == <<"0", "1", "2", "3", "4", "5", "6", "7", "8", "9">>

IndexIn(seq, ch) == CHOOSE i \in DOMAIN seq : seq[i] = ch
Occurs(seq, ch) == \E i \in DOMAIN seq : seq[i] = ch

\* str::to_lowercase, on ASCII strings
ToLowercase(s) == [i \in DOMAIN s |-> IF Occurs(UpperCase, s[i]) THEN LowerCase[IndexIn(UpperCase, s[i])] ELSE s[i]]

\* the number a string of decimal digits denotes
RECURSIVE DigitsValue(_)
DigitsValue(s) == IF s = <<>> THEN 0 ELSE 10 * DigitsValue(SubSeq(s, 1, Len(s) - 1)) + (IndexIn(Digits, s[Len(s)]) - 1)

\* str::parse::<usize>: decimal digits after an optional "+"; the strings of
\* the model are far below usize::MAX
ParseUsize(s) ==
    LET body == IF s # <<>> /\ s[1] = "+" THEN Tail(s) ELSE s IN
        IF body # <<>> /\ \A i \in DOMAIN body : Occurs(Digits, body[i]) THEN Ok(DigitsValue(body)) ELSE Err

\* unpack_bulk_str
UnpackBulkStr(value) ==
    IF value.t = "BulkString" THEN Ok(value.s)
    ELSE IF value.t = "Null" THEN Ok(<<>>)
    ELSE Err

\* Result::unwrap_or_default and Result::unwrap_or
UnwrapOr(r, d) == IF r.ok THEN r.v ELSE d

\* Vec::get(i), i counted from 0
VecGet(v, i) == IF i + 1 <= Len(v) THEN Some(v[i + 1]) ELSE None

\* extract_command: Ok of <<command, args>>, or Err
ExtractCommand(value) ==
    IF value.t = "Array"
    THEN LET first == UnpackBulkStr(IF VecGet(value.a, 0) # None THEN value.a[1] ELSE Null) IN
             IF first.ok THEN Ok(<<first.v, Tail(value.a)>>) ELSE Err
    ELSE Err

----------------------------------------------------------------------------
(* The dispatch of handle_conn, main.rs:45-89 *)

StrPong == <<"P", "O", "N", "G">>
StrOk == <<"O", "K">>
StrPing == <<"p", "i", "n", "g">>
StrEcho == <<"e", "c", "h", "o">>
StrSet == <<"s", "e", "t">>
StrGet == <<"g", "e", "t">>
StrPx == <<"p", "x">>
ErrSetArgs == <<"ERROR: SET requires at least a key and value">>
ErrGetArgs == <<"ERROR: GET requires one argument">>
ErrUnknown == <<"ERROR: Unknown command">>
ErrNotBulk == <<"ERROR: Command is not a valid bulk string">>

\* the block ends with a response, or `?` returns from handle_conn
Reply(v, st) == [early |-> FALSE, response |-> v, storage |-> st]
EarlyReturn(st) == [early |-> TRUE, response |-> Null, storage |-> st]

\* the "set" arm, main.rs:54-72, at tick t
DispatchSet(args, st, t) ==
    LET key == VecGet(args, 0)
        value == VecGet(args, 1)
        arg == VecGet(args, 2)
        expiry == VecGet(args, 3)
    IN  IF key # None /\ value # None /\ arg # None /\ expiry # None /\ ToLowercase(UnwrapOr(UnpackBulkStr(arg[1]), <<>>)) = StrPx
        THEN IF ~UnpackBulkStr(key[1]).ok \/ ~UnpackBulkStr(value[1]).ok
             THEN EarlyReturn(st)
             ELSE LET expires == UnwrapOr(ParseUsize(UnwrapOr(UnpackBulkStr(expiry[1]), <<"0">>)), 0) IN
                      Reply(SimpleString(StrOk), StorageSet(st, UnpackBulkStr(key[1]).v, UnpackBulkStr(value[1]).v, expires, t))
        ELSE IF key # None /\ value # None
        THEN IF ~UnpackBulkStr(key[1]).ok \/ ~UnpackBulkStr(value[1]).ok
             THEN EarlyReturn(st)
             ELSE Reply(SimpleString(StrOk), StorageSet(st, UnpackBulkStr(key[1]).v, UnpackBulkStr(value[1]).v, 0, t))
        ELSE Reply(SimpleString(ErrSetArgs), st)

\* the "get" arm, main.rs:73-83: Storage::get sweeps at the ticks `at` and tests at t
DispatchGet(args, st, at, t) ==
    LET key == VecGet(args, 0) IN
        IF key = None THEN Reply(SimpleString(ErrGetArgs), st)
        ELSE IF ~UnpackBulkStr(key[1]).ok THEN EarlyReturn(st)
        ELSE LET swept == RemoveExpired(st, at)
                 item == GetCheck(swept, UnpackBulkStr(key[1]).v, t)
             IN  Reply(IF item # None THEN BulkString(item[1].value) ELSE Null, swept)

\* the "echo" arm, main.rs:53
DispatchEcho(args) ==
    IF VecGet(args, 0) # None THEN BulkString(UnwrapOr(UnpackBulkStr(args[1]), <<>>)) ELSE Null

\* the command as the dispatch had it were it unpacked as the bulk string it came from
UnpackCommandBulk(command) == UnpackBulkStr(BulkString(command))

\* main.rs:47: the command, wrapped as a SimpleString, is passed to unpack_bulk_str
UnpackCommand(command) == UnpackBulkStr(SimpleString(command))

\* the block of main.rs:45-89 for one command; the clock is `now` at its set
\* and t at the test of its get
Dispatch(command, args, st, at, t) ==
    LET cmd_str == UnpackCommand(command) IN
        IF ~cmd_str.ok THEN Reply(SimpleString(ErrNotBulk), st)
        ELSE LET cmd_lower == ToLowercase(cmd_str.v) IN
            IF cmd_lower = StrPing THEN Reply(SimpleString(StrPong), st)
            ELSE IF cmd_lower = StrEcho THEN Reply(DispatchEcho(args), st)
            ELSE IF cmd_lower = StrSet THEN DispatchSet(args, st, now)
            ELSE IF cmd_lower = StrGet THEN DispatchGet(args, st, at, t)
            ELSE Reply(SimpleString(ErrUnknown), st)

----------------------------------------------------------------------------
(* The requests the clients of the model send *)

ReqSetPx == Array(<<BulkString(<<"S", "E", "T">>), BulkString(KeyA), BulkString(ValX), BulkString(<<"P", "X">>), BulkString(<<"1">>)>>)
ReqSet == Array(<<BulkString(<<"s", "e", "t">>), BulkString(KeyA), BulkString(ValY)>>)
ReqGet == Array(<<BulkString(<<"G", "E", "T">>), BulkString(KeyA)>>)
ReqSetBadKey == Array(<<BulkString(<<"S", "E", "T">>), SimpleString(KeyA), BulkString(ValX)>>)
ReqSetNoValue == Array(<<BulkString(<<"S", "E", "T">>), BulkString(KeyA)>>)
ReqFoo == Array(<<BulkString(<<"F", "O", "O">>)>>)
ReqPing == Array(<<BulkString(<<"P", "I", "N", "G">>)>>)
ReqPingMixed == Array(<<BulkString(<<"P", "i", "N", "g">>)>>)
ReqEcho == Array(<<BulkString(<<"E", "C", "H", "O">>), BulkString(ValX)>>)
ReqGetNoArg == Array(<<BulkString(<<"g", "e", "t">>)>>)
ReqNotArray == SimpleString(<<"P", "I", "N", "G">>)
ReqFirstNotBulk == Array(<<SimpleString(<<"P", "I", "N", "G">>)>>)

Requests == {ReqSetPx, ReqSet, ReqGet, ReqSetBadKey, ReqSetNoValue, ReqFoo, ReqPing, ReqPingMixed, ReqEcho, ReqGetNoArg, ReqNotArray, ReqFirstNotBulk}

Conns == {1, 2}

\* what the commands are meant to do to the store: a well-formed SET writes its
\* key, value and PX ttl (ghost, for the claims on replies)
IsCommand(v, name, n) == v.t = "Array" /\ Len(v.a) >= n /\ (\A i \in DOMAIN v.a : v.a[i].t = "BulkString") /\ ToLowercase(v.a[1].s) = name
ClaimedTtl(v) == IF Len(v.a) >= 5 /\ ToLowercase(v.a[4].s) = StrPx THEN UnwrapOr(ParseUsize(v.a[5].s), 0) ELSE 0
ClaimedStore(v, st, t) == IF IsCommand(v, StrSet, 3) THEN StorageSet(st, v.a[2].s, v.a[3].s, ClaimedTtl(v), t) ELSE st
ClaimedGetReply(v, st, t) == LET item == GetCheck(st, v.a[2].s, t) IN IF item # None THEN BulkString(item[1].value) ELSE Null

----------------------------------------------------------------------------
(* handle_conn, one task per connection *)

\* a lock taken without waiting for its holder
LockNoWait(c) == locked' = TRUE /\ guard' = [guard EXCEPT ![c] = TRUE]

\* storage.lock().unwrap(): waits until the Mutex is free
Lock(c) == ~locked /\ locked' = TRUE /\ guard' = [guard EXCEPT ![c] = TRUE]

\* a guard that outlives its block
UnlockLeak(c) == UNCHANGED <<locked, guard>>

\* the MutexGuard goes out of scope: the end of a block, or a return
Unlock(c) == locked' = FALSE /\ guard' = [guard EXCEPT ![c] = FALSE]

\* the loop goes on without the reply being written
AfterDispatchSkipWrite == "loop"

\* after the dispatch block comes write_value, main.rs:91
AfterDispatch == "write"

\* a read error after which the loop goes on with the next request
OnReadErrContinue == "loop"

\* main.rs:97-100: on Err of read_value the loop breaks
OnReadErr == "done"

\* a failed extraction that ends the handler
OnExtractErrReturn == "done"

\* main.rs:38-41: on Err of extract_command the loop continues
OnExtractErr == "loop"

\* a reply written a second time
AfterWriteAgain == "write"

\* main.rs:91-95: after write_value the next iteration of the loop begins
AfterWrite == "loop"

\* the requests read so far on all connections
TotalDecoded == nDecoded[1] + nDecoded[2]

\* main.rs:30: the lock for the sweep
LockSweep(c) ==
    /\ pc[c] = "loop"
    /\ UNCHANGED closed
    /\ Lock(c)
    /\ pc' = [pc EXCEPT ![c] = "sweep"]
    /\ UNCHANGED <<now, storeVars, request, response, nDecoded, applied, replied, exitWhy>>

\* main.rs:31-32: remove_expired, and the guard is dropped
SweepUnlock(c) ==
    \E d \in Drifts : \E at \in SweepTimes(storage, d) :
        /\ pc[c] = "sweep"
        /\ UNCHANGED closed
        /\ now + d <= MaxClock
        /\ now' = now + d
        /\ storage' = RemoveExpired(storage, at)
        /\ Unlock(c)
        /\ pc' = [pc EXCEPT ![c] = "read"]
        /\ UNCHANGED <<shadow, expiredSeen, last, lastSet, request, response, nDecoded, applied, replied, exitWhy>>

\* main.rs:34-42: read_value returns Ok(Some(value)); extract_command fails
\* and the loop continues, or gives the command and its arguments
ReadSome(c) ==
    \E value \in Requests :
        /\ pc[c] = "read"
        /\ UNCHANGED closed
        /\ TotalDecoded < MaxReqs
        /\ nDecoded' = [nDecoded EXCEPT ![c] = @ + 1]
        /\ IF ExtractCommand(value).ok
           THEN pc' = [pc EXCEPT ![c] = "lock"] /\ request' = [request EXCEPT ![c] = Some(value)]
           ELSE pc' = [pc EXCEPT ![c] = OnExtractErr] /\ request' = [request EXCEPT ![c] = None]
        /\ UNCHANGED <<now, storeVars, locked, guard, response, applied, replied, exitWhy>>

\* main.rs:96: read_value returns Ok(None), the stream has ended
ReadEof(c) ==
    /\ pc[c] = "read"
    /\ closed' = closed \ {c}
    /\ pc' = [pc EXCEPT ![c] = "done"]
    /\ exitWhy' = [exitWhy EXCEPT ![c] = "eof"]
    /\ UNCHANGED <<now, storeVars, locked, guard, request, response, nDecoded, applied, replied>>

\* main.rs:97-100: read_value returns Err, the stream has failed
ReadErr(c) ==
    /\ pc[c] = "read"
    /\ closed' = closed \ {c}
    /\ pc' = [pc EXCEPT ![c] = OnReadErr]
    /\ exitWhy' = [exitWhy EXCEPT ![c] = "read_err"]
    /\ UNCHANGED <<now, storeVars, locked, guard, request, response, nDecoded, applied, replied>>

\* main.rs:97-100: read_value returns Err for a frame that is no value
\* (MalformedInput); the same arm of the match takes it
ReadMalformed(c) ==
    /\ pc[c] = "read"
    /\ closed' = closed \ {c}
    /\ pc' = [pc EXCEPT ![c] = OnReadErr]
    /\ exitWhy' = [exitWhy EXCEPT ![c] = "malformed"]
    /\ UNCHANGED <<now, storeVars, locked, guard, request, response, nDecoded, applied, replied>>

\* main.rs:46: the lock for the dispatch
LockDispatch(c) ==
    /\ pc[c] = "lock"
    /\ UNCHANGED closed
    /\ Lock(c)
    /\ pc' = [pc EXCEPT ![c] = "dispatch"]
    /\ UNCHANGED <<now, storeVars, request, response, nDecoded, applied, replied, exitWhy>>

\* main.rs:47-89: the command is dispatched and the guard is dropped, at the
\* end of the block or by the return of `?`
DispatchUnlock(c) ==
    \E d \in Drifts : \E at \in SweepTimes(storage, d) :
        /\ pc[c] = "dispatch"
        /\ now + d <= MaxClock
        /\ now' = now + d
        /\ LET cmd == ExtractCommand(request[c][1]).v
               r == Dispatch(cmd[1], cmd[2], storage, at, now')
           IN  /\ storage' = r.storage
               /\ IF r.early
                  THEN /\ pc' = [pc EXCEPT ![c] = "done"]
                       /\ closed' = closed \ {c}
                       /\ exitWhy' = [exitWhy EXCEPT ![c] = "dispatch_err"]
                       /\ UNCHANGED response
                  ELSE /\ pc' = [pc EXCEPT ![c] = AfterDispatch]
                       /\ response' = [response EXCEPT ![c] = Some(r.response)]
                       /\ UNCHANGED <<exitWhy, closed>>
        /\ shadow' = ClaimedStore(request[c][1], shadow, now)
        /\ applied' = [applied EXCEPT ![c] = Append(@, nDecoded[c])]
        /\ Unlock(c)
        /\ UNCHANGED <<expiredSeen, last, lastSet, request, nDecoded, replied>>

\* main.rs:91: write_value succeeds, the next iteration begins
WriteOk(c) ==
    /\ pc[c] = "write"
    /\ UNCHANGED closed
    /\ pc' = [pc EXCEPT ![c] = AfterWrite]
    /\ replied' = [replied EXCEPT ![c] = Append(@, nDecoded[c])]
    /\ request' = [request EXCEPT ![c] = None]
    /\ response' = [response EXCEPT ![c] = None]
    /\ UNCHANGED <<now, storeVars, locked, guard, nDecoded, applied, exitWhy>>

\* main.rs:91-94: write_value fails, the loop breaks
WriteErr(c) ==
    /\ pc[c] = "write"
    /\ closed' = closed \ {c}
    /\ pc' = [pc EXCEPT ![c] = "done"]
    /\ exitWhy' = [exitWhy EXCEPT ![c] = "write_err"]
    /\ UNCHANGED <<now, storeVars, locked, guard, request, response, nDecoded, applied, replied>>

----------------------------------------------------------------------------

Init ==
    /\ now = 0
    /\ storage = StorageNew
    /\ shadow = StorageNew
    /\ expiredSeen = {}
    /\ last = LastInit
    /\ lastSet = LastSetInit
    /\ locked = FALSE
    /\ guard = [c \in Conns |-> FALSE]
    /\ pc = [c \in Conns |-> "loop"]
    /\ request = [c \in Conns |-> None]
    /\ response = [c \in Conns |-> None]
    /\ nDecoded = [c \in Conns |-> 0]
    /\ applied = [c \in Conns |-> <<>>]
    /\ replied = [c \in Conns |-> <<>>]
    /\ exitWhy = [c \in Conns |-> "running"]
    /\ closed = {}

CallSet == \E k \in Keys, v \in Vals, e \in Ttls : Set(k, v, e)
CallGet == \E k \in Keys : Get(k)

NextStorage ==
    \/ CallSet
    \/ CallGet
    \/ Sweep
    \/ Tick

\* any sequence of set, get, remove_expired and clock advances on one Storage
SpecStorage == Init /\ [][NextStorage]_vars

\* the clock of the server
Clock ==
    /\ now < MaxClock
    /\ now' = now + 1
    /\ UNCHANGED <<storeVars, connVars>>

Next ==
    \/ \E c \in Conns : LockSweep(c)
    \/ \E c \in Conns : SweepUnlock(c)
    \/ \E c \in Conns : ReadSome(c)
    \/ \E c \in Conns : ReadEof(c)
    \/ \E c \in Conns : ReadErr(c)
    \/ \E c \in Conns : ReadMalformed(c)
    \/ \E c \in Conns : LockDispatch(c)
    \/ \E c \in Conns : DispatchUnlock(c)
    \/ \E c \in Conns : WriteOk(c)
    \/ \E c \in Conns : WriteErr(c)
    \/ Clock

\* the server: the handle_conn tasks of the accepted connections and the clock
Spec == Init /\ [][Next]_vars

\* the server under a fair scheduler and a fair Mutex: a handler that can run
\* its sweep or its dispatch does, and a handler that waits for the Mutex gets
\* it if it is free again and again; no client is bound to send or to read
SpecFair ==
    /\ Init /\ [][Next]_vars
    /\ \A c \in Conns : WF_vars(SweepUnlock(c)) /\ WF_vars(DispatchUnlock(c))
    /\ \A c \in Conns : SF_vars(LockSweep(c)) /\ SF_vars(LockDispatch(c))

\* the client of connection c closes its socket, at any point of the loop of
\* its handler; the handler learns of it from read_value or write_value only
Close(c) ==
    /\ pc[c] # "done"
    /\ Cardinality(closed) < MaxClosed
    /\ closed' = closed \cup {c}
    /\ UNCHANGED <<now, storeVars, locked, guard, pc, request, response, nDecoded, applied, replied, exitWhy>>

NextCancel ==
    \/ Next
    \/ \E c \in Conns : Close(c)

\* the server with clients that close their connection
SpecCancel == Init /\ [][NextCancel]_vars

----------------------------------------------------------------------------
(* Claims on the Storage, under SpecStorage.  In a state with last.op = "get" *)
(* the clock `now` is the tick at which that get read elapsed().              *)

\* the get that led to this state returned an item
GotSome == last.op = "get" /\ last.result # None

\* the get that led to this state returned None
GotNone == last.op = "get" /\ last.result = None

\* C1: get returns an item only if the item has expires = 0 or its elapsed
\* milliseconds, read at the time of the get, are at most expires; with or
\* without calls of remove_expired in between.
C1_GetNeverReturnsExpired ==
    GotSome => LET item == last.result[1] IN
                  item.expires = 0 \/ ElapsedMillis(item.created, now) <= item.expires

\* C1 witness: a get returned an entry with a ttl at the last tick of its life,
\* while the map still holds another entry that is past its ttl (no sweep took it)
C1_Witness ==
    /\ GotSome
    /\ last.result[1].expires > 0
    /\ ElapsedMillis(last.result[1].created, now + 1) > last.result[1].expires
    /\ \E k \in DOMAIN storage : IsExpiredGet(storage[k], now)

\* C2: after set(k, v, ttl > 0) and no later set on k, get(k) returns the entry
\* while elapsed <= ttl (equality included) and None once elapsed > ttl; after
\* a None it never returns Some again before a new set on k.
C2_TtlMonotonic ==
    (last.op = "get" /\ last.key \in DOMAIN shadow /\ shadow[last.key].expires > 0) =>
        LET s == shadow[last.key] IN
            /\ ElapsedMillis(s.created, now) <= s.expires => last.result = Some(s)
            /\ ElapsedMillis(s.created, now) > s.expires => last.result = None
            /\ last.afterNone => last.result = None

\* C2 witness: a get at the boundary elapsed = ttl (in milliseconds, some ticks
\* after the boundary was reached) that returned the entry
C2_Witness ==
    /\ GotSome
    /\ last.result[1].expires > 0
    /\ ElapsedMillis(last.result[1].created, now) = last.result[1].expires
    /\ now - last.result[1].created > last.result[1].expires * TicksPerMilli

\* C2 second case reached: a get answered None again after an earlier None
C2_WitnessAfterNone == GotNone /\ last.afterNone /\ last.key \in DOMAIN shadow

\* C3: after set(k, v, 0) every get(k) returns the entry, at any later time
\* and after any remove_expired and any call on other keys, until k is set again.
C3_NoExpiry ==
    (last.op = "get" /\ last.key \in DOMAIN shadow /\ shadow[last.key].expires = 0) =>
        last.result = Some(shadow[last.key])

\* C3 witness: a get of a ttl-0 entry some milliseconds after its set, after
\* the entry of the other key expired and was removed
C3_Witness ==
    /\ GotSome
    /\ last.result[1].expires = 0
    /\ ElapsedMillis(last.result[1].created, now) >= 1
    /\ \E k \in DOMAIN shadow : k # last.key /\ k \notin DOMAIN storage

\* C4: a set on an existing key replaces the whole entry (value, created and
\* expires are those of the second set), and a later get of the key answers
\* by the second set alone: nothing of the first entry's expiry survives.
C4_OverwriteResetsTtl ==
    /\ last.op = "set" => Lookup(storage, last.key) = Some(Item(lastSet.value, now, lastSet.ttl))
    /\ (last.op = "get" /\ last.key = lastSet.key /\ lastSet.prev # None) =>
          last.result = IF lastSet.ttl = 0 \/ ElapsedMillis(lastSet.at, now) <= lastSet.ttl
                        THEN Some(Item(lastSet.value, lastSet.at, lastSet.ttl))
                        ELSE None

\* C4 witness: set(k, v1, ttl > 0), then set(k, v2, 0), then a get(k) that
\* returned v2 when the first entry's ttl had passed
C4_Witness ==
    /\ GotSome
    /\ last.key = lastSet.key
    /\ lastSet.prev # None
    /\ lastSet.ttl = 0
    /\ lastSet.prev[1].expires > 0
    /\ lastSet.prev[1].value # lastSet.value
    /\ IsExpiredGet(lastSet.prev[1], now)
    /\ last.result[1].value = lastSet.value

\* C5: the result of every get equals the result of the same get on a store
\* that saw the same sets at the same times and was never swept.
C5_SweepTransparent ==
    last.op = "get" => last.result = GetCheck(shadow, last.key, now)

\* C5 witness: a get returned an entry after a sweep had removed the other key's
C5_Witness ==
    /\ GotSome
    /\ DOMAIN storage # DOMAIN shadow

\* C5 second case reached: a get of a key whose entry a sweep had removed
C5_WitnessSwept == GotNone /\ last.key \in DOMAIN shadow /\ last.key \notin DOMAIN storage

----------------------------------------------------------------------------
(* Claims on the server, under Spec *)

\* the numbers of a log grow strictly
Increasing(log) == \A i, j \in DOMAIN log : i < j => log[i] < log[j]

\* log p is log q, or q without its last entry
PrefixByOne(p, q) == p = q \/ (q # <<>> /\ p = SubSeq(q, 1, Len(q) - 1))

\* C6: a GET k replies BulkString(v) exactly when the most recent SET on k, in
\* lock order over all connections, wrote v and that entry is not expired at
\* the time of the GET, and Null otherwise; a SET with key and value replies OK.
C6_GetReplyContract ==
    [][\A c \in Conns : (pc[c] = "dispatch" /\ pc'[c] # "dispatch") =>
          /\ IsCommand(request[c][1], StrGet, 2) =>
                pc'[c] = "write" /\ response'[c] = Some(ClaimedGetReply(request[c][1], shadow, now'))
          /\ IsCommand(request[c][1], StrSet, 3) =>
                pc'[c] = "write" /\ response'[c] = Some(SimpleString(StrOk))]_vars

\* C7: at most one connection holds the store lock, the store is touched only
\* by the task that holds it, and every entry of the store is the entry of one
\* single SET (value, created and ttl together).
C7_ExclusiveStore ==
    /\ \A c1, c2 \in Conns : (guard[c1] /\ guard[c2]) => c1 = c2
    /\ locked <=> \E c \in Conns : guard[c]
    /\ \A c \in Conns : pc[c] \in {"sweep", "dispatch"} => guard[c]
    /\ \A k \in DOMAIN storage : k \in DOMAIN shadow /\ storage[k] = shadow[k]

\* C7 witness: two connections with a SET on the same key, one inside its
\* dispatch with the lock, the other waiting for the lock
C7_Witness ==
    /\ pc[1] = "dispatch" /\ guard[1] /\ request[1] = Some(ReqSetPx)
    /\ pc[2] = "lock" /\ ~guard[2] /\ request[2] = Some(ReqSet)

\* C8: a task waiting in read_value or write_value does not hold the store
\* lock; the lock is held only during one sweep or one dispatch.
C8_NoLockAcrossAwait ==
    \A c \in Conns :
        /\ pc[c] \in {"read", "write"} => ~guard[c]
        /\ guard[c] => pc[c] \in {"sweep", "dispatch"}

\* C8 witness: one task waits in write_value and another in read_value while
\* neither holds the lock, after both held it
C8_Witness ==
    /\ pc[1] = "write" /\ ~guard[1] /\ applied[1] # <<>>
    /\ pc[2] = "read" /\ ~guard[2]
    /\ ~locked

\* C9: the commands of one connection are dispatched in the order they were
\* read, and a command takes the lock only after every earlier command of its
\* connection was dispatched and its reply written.
C9_PerConnectionOrder ==
    \A c \in Conns :
        /\ Increasing(applied[c])
        /\ PrefixByOne(replied[c], applied[c])
        /\ pc[c] \in {"lock", "dispatch"} => (replied[c] = applied[c] /\ \A i \in DOMAIN applied[c] : applied[c][i] < nDecoded[c])
        /\ pc[c] = "write" => (applied[c] # <<>> /\ applied[c][Len(applied[c])] = nDecoded[c])

\* C9 witness: the second command of a connection holds the lock after the
\* first was dispatched and answered, and a command of the other connection
\* was dispatched in between or before
C9_Witness ==
    /\ pc[1] = "dispatch" /\ guard[1]
    /\ applied[1] = <<1>> /\ replied[1] = <<1>> /\ nDecoded[1] = 2
    /\ applied[2] = <<1>>

\* C10: handle_conn returns only on the end of the stream, a read error (an
\* Err of read_value, a malformed frame included) or a write error, whatever
\* the shape of the requests it read.
C10_OnlyIoFatal ==
    \A c \in Conns :
        /\ pc[c] = "done" <=> exitWhy[c] # "running"
        /\ exitWhy[c] \in {"running", "eof", "read_err", "malformed", "write_err"}

\* C10 witness: after a request that was no command array (skipped), the same
\* connection read a SET whose key is no bulk string and has its reply to write
C10_Witness ==
    \E c \in Conns :
        /\ pc[c] = "write"
        /\ request[c] = Some(ReqSetBadKey)
        /\ nDecoded[c] = 2
        /\ applied[c] = <<2>>

\* the other connection
Other(c) == 3 - c

Dispatched(c) == pc[c] = "dispatch" /\ pc'[c] # "dispatch"

\* the names of the commands the server knows
KnownCommands == {StrPing, StrEcho, StrSet, StrGet}

\* v is a command array whose name no arm of the dispatch matches
IsUnknownCommand(v) == v.t = "Array" /\ Len(v.a) >= 1 /\ (\A i \in DOMAIN v.a : v.a[i].t = "BulkString") /\ ToLowercase(v.a[1].s) \notin KnownCommands

\* w is v with the command name in another case
CaseVariant(v, w) ==
    /\ ExtractCommand(v).ok /\ ExtractCommand(w).ok
    /\ ToLowercase(ExtractCommand(v).v[1]) = ToLowercase(ExtractCommand(w).v[1])
    /\ ExtractCommand(v).v[2] = ExtractCommand(w).v[2]

\* C12: an unrecognized command (FOO) is answered SimpleString "ERROR: Unknown
\* command", changes nothing in the store and leaves the connection open for
\* its next command.
C12_UnknownCommand ==
    [][\A c \in Conns : (Dispatched(c) /\ IsUnknownCommand(request[c][1])) =>
          /\ pc'[c] = "write"
          /\ response'[c] = Some(SimpleString(ErrUnknown))
          /\ storage' = storage]_vars

\* C13: SET key value [PX n] stores the entry with ttl n when the third
\* argument is PX in any case and n parses, with ttl 0 otherwise, and replies
\* OK; SET without key or value replies an error and stores nothing.
C13_SetExpiryOption ==
    [][\A c \in Conns : Dispatched(c) =>
          LET v == request[c][1] IN
              /\ IsCommand(v, StrSet, 3) =>
                    /\ pc'[c] = "write"
                    /\ response'[c] = Some(SimpleString(StrOk))
                    /\ Lookup(storage', v.a[2].s) = Some(Item(v.a[3].s, now, ClaimedTtl(v)))
              /\ (IsCommand(v, StrSet, 1) /\ Len(v.a) < 3) =>
                    /\ pc'[c] = "write"
                    /\ response'[c] # Some(SimpleString(StrOk))
                    /\ storage' = storage]_vars

\* C14: the command name is matched in any case: every case variant of a
\* command gets the reply, and leaves the store, that the command gets, and
\* every case variant of PING gets SimpleString "PONG".
C14_CaseInsensitive ==
    [][\A c \in Conns : Dispatched(c) =>
          LET v == request[c][1] IN
              /\ IsCommand(v, StrPing, 1) => response'[c] = Some(SimpleString(StrPong))
              /\ \A w \in Requests : (CaseVariant(v, w) /\ pc'[c] = "write") =>
                    LET r == Dispatch(ExtractCommand(w).v[1], ExtractCommand(w).v[2], storage, [k \in DOMAIN storage |-> now], now')
                    IN  ~r.early /\ Some(r.response) = response'[c]]_vars

\* what get(key) answers on st at tick t
GetValue(st, key, t) == IF GetCheck(st, key, t) = None THEN None ELSE Some(GetCheck(st, key, t)[1].value)

\* the state of the handler of connection d is the same after the step
SameHandler(d) ==
    /\ pc'[d] = pc[d] /\ guard'[d] = guard[d]
    /\ request'[d] = request[d] /\ response'[d] = response[d]
    /\ nDecoded'[d] = nDecoded[d] /\ applied'[d] = applied[d] /\ replied'[d] = replied[d]
    /\ exitWhy'[d] = exitWhy[d]

\* C15: once the client of a connection has closed it, at any point of the
\* loop, no step of its handler changes what get answers for any key, the
\* handler ends without the store lock, which is then free for the others,
\* and no step of it changes the state of another handler.
C15_CancellationSafe ==
    [][\A c \in Conns : (c \in closed /\ pc'[c] # pc[c]) =>
          /\ \A k \in Keys : GetValue(storage', k, now') = GetValue(storage, k, now')
          /\ SameHandler(Other(c))
          /\ pc'[c] = "done" => (~guard'[c] /\ (locked' => guard'[Other(c)]))]_vars

\* the client of connection 1 has closed it, a SET of that connection has been
\* dispatched and the store holds nothing; connection 2 is inside its
\* dispatch with the lock
C15_Witness ==
    /\ closed = {1} /\ pc[1] = "write"
    /\ IsCommand(request[1][1], StrSet, 3) /\ applied[1] = <<1>>
    /\ storage = StorageNew
    /\ pc[2] = "dispatch" /\ guard[2]

\* the entry has a ttl and more than its ttl, in whole milliseconds, has gone by at tick t
TtlElapsed(item, t) == item.expires > 0 /\ (t - item.created) \div TicksPerMilli > item.expires

\* C16: remove_expired removes exactly the expired entries: an entry expired
\* when the call begins is gone when it returns, an entry not expired when
\* the call returns (ttl 0, or elapsed <= ttl) is still there, and every
\* entry still there has its value, created time and ttl unchanged.
C16_SweepExact ==
    [][last'.op = "sweep" =>
          /\ DOMAIN storage' \subseteq DOMAIN storage
          /\ \A k \in DOMAIN storage' : storage'[k] = storage[k]
          /\ \A k \in DOMAIN storage : TtlElapsed(storage[k], now) => k \notin DOMAIN storage'
          /\ \A k \in DOMAIN storage : ~TtlElapsed(storage[k], now') => k \in DOMAIN storage'
          /\ \A k \in DOMAIN storage' : ~TtlElapsed(storage'[k], now)]_vars

\* a sweep has removed the entry of one key and kept the other key's entry,
\* which has a ttl that has just not run out
C16_Witness ==
    /\ last.op = "sweep"
    /\ \E k \in DOMAIN shadow : k \notin DOMAIN storage /\ TtlElapsed(shadow[k], now)
    /\ \E k \in DOMAIN storage : storage[k].expires > 0 /\ (now - storage[k].created) \div TicksPerMilli = storage[k].expires

\* connection c reads a request in this step and extract_command fails on it
ExtractFailed(c) == pc[c] = "read" /\ nDecoded'[c] = nDecoded[c] + 1 /\ request'[c] = None

\* v is a SET that has its key and its value
IsFullSet(v) == IsCommand(v, StrSet, 3)

\* C17: the dispatch of a command that is not a SET with key and value (PING,
\* ECHO, an unrecognized command, SET without key or value, GET without
\* argument) leaves the store as it was; so does a request extract_command
\* fails on, and after it the handler is at the top of its loop, not ended.
C17_NoMutation ==
    [][\A c \in Conns :
          /\ (Dispatched(c) /\ ~IsFullSet(request[c][1]) /\ ~IsCommand(request[c][1], StrGet, 2)) => storage' = storage
          /\ ExtractFailed(c) => (storage' = storage /\ pc'[c] = "loop" /\ exitWhy'[c] = "running" /\ replied'[c] = replied[c])]_vars

\* connection 1 read a request extract_command failed on, then read a PING
\* and dispatched it, and the store holds nothing
C17_Witness ==
    /\ nDecoded[1] = 2 /\ applied[1] = <<2>> /\ pc[1] = "write"
    /\ IsCommand(request[1][1], StrPing, 1)
    /\ storage = StorageNew

\* C18: whatever the other connection's client does, also if it never sends
\* a byte or never takes its reply, a command read on a connection is in the
\* end dispatched and its reply handed to write_value (or the handler ends).
C18_NoStall ==
    \A c \in Conns : (pc[c] = "lock") ~> (pc[c] \in {"write", "done"})

\* connection 1 waits for its first request, which does not come, and
\* connection 2 has had two commands dispatched
C18_Witness ==
    /\ pc[1] = "read" /\ nDecoded[1] = 0
    /\ pc[2] = "write" /\ applied[2] = <<1, 2>>

\* C19: on one connection the requests answered are, in order, the requests
\* dispatched, each answered once; a dispatched request is answered before
\* the next request is read; a request extract_command fails on is neither
\* dispatched nor answered, so the replies never outnumber the requests read.
C19_RequestReplyPairing ==
    \A c \in Conns :
        /\ Increasing(applied[c]) /\ Increasing(replied[c])
        /\ Len(replied[c]) <= Len(applied[c]) /\ Len(applied[c]) <= nDecoded[c]
        /\ \A i \in DOMAIN replied[c] : replied[c][i] = applied[c][i]
        /\ pc[c] \in {"loop", "sweep", "read"} => replied[c] = applied[c]
        /\ pc[c] \in {"lock", "dispatch"} => (replied[c] = applied[c] /\ (applied[c] = <<>> \/ applied[c][Len(applied[c])] < nDecoded[c]))
        /\ pc[c] = "write" => (Len(applied[c]) = Len(replied[c]) + 1 /\ applied[c][Len(applied[c])] = nDecoded[c])

\* connection 1 has read three requests: extract_command failed on the
\* second, the first and the third were dispatched and answered
C19_Witness ==
    /\ nDecoded[1] = 3 /\ applied[1] = <<1, 3>> /\ replied[1] = <<1, 3>>
    /\ pc[1] = "read"

\* C20: a handler that has returned, whatever made it return, does not hold
\* the store lock: if the lock is held at all, the other handler holds it,
\* inside its sweep or its dispatch, and once both have returned it is free.
C20_LockReleasedOnExit ==
    /\ \A c \in Conns : pc[c] = "done" =>
          /\ ~guard[c]
          /\ locked => (guard[Other(c)] /\ pc[Other(c)] \in {"sweep", "dispatch"})
    /\ (\A c \in Conns : pc[c] = "done") => ~locked

\* connection 1 had a command dispatched and returned at the end of its
\* stream; connection 2 has taken the lock for its sweep since
C20_Witness ==
    /\ pc[1] = "done" /\ exitWhy[1] = "eof" /\ applied[1] = <<1>> /\ replied[1] = <<1>>
    /\ pc[2] = "sweep" /\ guard[2] /\ locked

====
